---- MODULE Spec2Model ----
(***************************************************************************)
(* A model of the recording session and the asset provisioner of           *)
(* src-tauri/src/services/whisper.rs.                                      *)
(*                                                                         *)
(* Every field of WhisperState sits behind its own Mutex, so each lock     *)
(* acquisition of start_recording, stop_recording and process_audio_chunk  *)
(* is one atomic step and the steps of concurrent callers interleave.      *)
(*                                                                         *)
(* Units.  Time is in milliseconds.  A sample value is an amplitude in     *)
(* thousandths of full scale.  The buffer holds blocks: one block stands   *)
(* for BlockSamples consecutive samples of one value, so a Vec<f32> of     *)
(* length n * BlockSamples is a sequence of n blocks.  The f32 arithmetic  *)
(* of the session is modelled by exact integer arithmetic; that of the     *)
(* resampling in transcribe_chunk is modelled with its rounding.           *)
(***************************************************************************)
EXTENDS Integers, Sequences, FiniteSets, TLC

\* ------------------------------------------------------------------ bounds

\* The number of start_recording, stop_recording and process_audio_chunk
\* calls of one behaviour.
MaxCalls == 3

\* The clock stops advancing here.
MaxNow == 5000

\* The number of ensure_dependencies calls of one behaviour.
MaxEnsures == 3

\* The number of frames the relay receives in one behaviour, and of messages
\* of its input channel.
MaxFrames == 2

MaxInputs == 1

\* The length of the sample vectors a normalisation is looked at with.
MaxSamples == 4

\* The samples per channel of the long chunks a normalisation is looked at
\* with.
LongSamples == 4410

\* ------------------------------------------------------- program constants

CHUNK_DURATION_SECS == 5

\* chunk.len() < 3200 discards a drained segment
MinSegmentSamples == 3200

\* config_sample_rate / config_channels of a remote-only start
DefaultSampleRate == 16000

DefaultChannels == 1

\* One block is 0.1 s of 16 kHz mono audio.
BlockSamples == DefaultSampleRate \div 10

\* ------------------------------------------------------------- the inputs

\* The chunks a call may carry, as <<length in blocks, amplitude>>: 0.1 s of
\* digital silence, 0.2 s of it, and 0.1 s of a loud signal.
ChunkKinds == {<<1, 0>>, <<2, 0>>, <<1, 316>>}

\* The steps the clock may advance by: half of the fixed interval of the
\* non-VAD trigger.
TickSteps == {2500}

\* The callers of process_audio_chunk: the capture callback thread and the
\* feed_audio_chunk command (or a relay frame).
IngestCallers == {"capture", "feed"}

\* The negotiated formats default_input_config may report.
DeviceFormats == {[rate |-> 48000, channels |-> 2]}

VadConfig(e, thr, sil, min) ==
    [enabled |-> e, silence_threshold_db |-> thr,
     silence_duration_ms |-> sil, min_chunk_duration_ms |-> min]

\* The VAD configurations start_recording is called with.
StartConfigs == {VadConfig(TRUE, -40, 100, 100), VadConfig(FALSE, -40, 100, 100)}

\* The configuration of WhisperState::new.
InitVadConfig == VadConfig(TRUE, -40, 1500, 1000)

NoHandle == 0

VARIABLES
    \* WhisperState
    stop_sender, audio_buffer, sample_rate, channels, is_recording,
    vad_config, consecutive_silent_frames, last_transcription_time,
    \* the monotonic clock behind Instant::now()
    now,
    \* the callers: a program counter and the locals of the call in flight
    starter, stopper, ingest,
    \* the transcription threads spawned, in spawn order
    jobs,
    \* history: the calls made, the ids handed out, what was appended and drained
    nCalls, appendLog, drainLog,
    \* the provisioner: the files of the whisper directory and the call in flight
    fs, ensure, nEnsures,
    \* the relay: the registry, each connection's handler and outbound channel,
    \* the output sink, the chunks handed to process_audio_chunk, the frames
    \* received and the input messages broadcast
    peers, conn, chan, output, fed, received, nInputs,
    \* the transcription threads started, the scratch WAV file they share and
    \* the partial-result events emitted
    threads, scratch, events,
    \* the thread spawned by the last start_recording
    capture,
    \* one normalisation of transcribe_chunk: its arguments and its result
    norm

sessionVars ==
    <<stop_sender, audio_buffer, sample_rate, channels, is_recording,
      vad_config, consecutive_silent_frames, last_transcription_time>>

historyVars ==
    <<nCalls, appendLog, drainLog>>

provisionVars == <<fs, ensure, nEnsures>>

relayVars == <<peers, conn, chan, output, fed, received, nInputs>>

transcribeVars == <<threads, scratch, events>>

\* What no step of start_recording, stop_recording or process_audio_chunk
\* touches.
elsewhereVars == <<provisionVars, relayVars, transcribeVars, norm>>

vars ==
    <<sessionVars, now, starter, stopper, ingest, jobs, historyVars, provisionVars,
      relayVars, transcribeVars, capture, norm>>

\* ---------------------------------------------------------------- helpers

RECURSIVE SumSq(_)
SumSq(s) == IF s = <<>> THEN 0 ELSE Head(s).v * Head(s).v + SumSq(Tail(s))

RECURSIVE Pow10(_)
Pow10(k) == IF k = 0 THEN 1 ELSE 10 * Pow10(k - 1)

RECURSIVE Flatten(_)
Flatten(ss) == IF ss = <<>> THEN <<>> ELSE Head(ss) \o Flatten(Tail(ss))

Ids(s) == {s[i].id : i \in 1..Len(s)}

Max(S) == CHOOSE x \in S : \A y \in S : y <= x

\* calculate_rms_db, to a resolution of 10 dB: -100 for an empty or all-zero
\* slice, else the largest multiple of 10 in -70..0 not above
\* 20*log10(sqrt(sum_squares / len)).  With amplitudes in thousandths,
\* rms_db >= d  <=>  sum_squares >= len * 10^(d/10 + 6).  A comparison with a
\* threshold that is a multiple of 10 dB in -60..0 is exact.
calculate_rms_db(samples) ==
    IF samples = <<>> THEN -100
    ELSE LET ss == SumSq(samples)
             n == Len(samples)
         IN  IF ss = 0 THEN -100
             ELSE Max({-70} \cup
                      {d \in {-60, -50, -40, -30, -20, -10, 0} :
                          ss >= n * Pow10((d \div 10) + 6)})

\* data.len() of a slice of blocks
SampleCount(samples) == Len(samples) * BlockSamples

\* (data.len() as f32 / channels as f32 / sample_rate as f32 * 1000.0) as u64
ChunkDurationMs(data, ch, sr) == (SampleCount(data) * 1000) \div (ch * sr)

\* last_trans_time.elapsed().as_millis()
ElapsedMs == now - last_transcription_time

IdleIngest ==
    [pc |-> "idle", data |-> <<>>, cfg |-> InitVadConfig, sr |-> 0, ch |-> 0,
     cnt |-> 0]

IdleStopper == [pc |-> "idle", quiet |-> FALSE, ret |-> "none"]

IdleStarter ==
    [pc |-> "idle", cfg |-> InitVadConfig, local |-> FALSE, handle |-> NoHandle,
     at |-> 0, dropped |-> {}, clean |-> FALSE, ret |-> "none"]

\* The consecutive_silent_frames guard taken at line 532 is held until the end
\* of the block, across the write of last_transcription_time.
SilentFramesFree == \A t \in IngestCallers : ingest[t].pc # "reset_time"

OthersIdle ==
    /\ stopper.pc = "idle"
    /\ \A t \in IngestCallers : ingest[t].pc = "idle"

\* A call may begin.
MayCall == nCalls < MaxCalls

\* A step of another caller during a start_recording call.
Disturb == [starter EXCEPT !.clean = FALSE]

\* A path of the whisper directory: no file, or a file and its bytes.
Absent == [exists |-> FALSE, data |-> <<>>]

FileOf(bytes) == [exists |-> TRUE, data |-> bytes]

\* The call of ensure_dependencies in flight: its place, the body of the
\* response it holds, whether the response gave a content length, the
\* progress last emitted, and what the last call returned.
IdleEnsure ==
    [pc |-> "idle", got |-> <<>>, sized |-> FALSE, progress |-> 0, ret |-> "none"]

\* The connections the relay is offered and the identifier each presents in
\* its query string: two connections present the same one.
Conns == {1, 2, 3}

PeerIds == {"A", "B"}

PeerId(c) == IF c = 3 THEN "B" ELSE "A"

NoConn == 0

\* A connection's handler: its place in peer_handler and the text frame it is
\* handling.
IdleConn == [pc |-> "none", msg |-> ""]

\* temp_chunk.wav: absent, or a file holding the samples of one job's chunk,
\* in part ("partial"), whole ("full"), or written through a handle another
\* thread's create has since truncated ("mixed").
NoScratch == [exists |-> FALSE, of |-> 0, data |-> "none"]

\* The thread start_recording spawned last: its place, and the call whose
\* channel it waits on.
NoCapture == [pc |-> "none", handle |-> NoHandle]

\* ------------------------------------------------------------------- Init

InitProgram ==
    /\ stop_sender = NoHandle
    /\ audio_buffer = <<>>
    /\ sample_rate = DefaultSampleRate
    /\ channels = DefaultChannels
    /\ is_recording = FALSE
    /\ vad_config = InitVadConfig
    /\ consecutive_silent_frames = 0
    /\ last_transcription_time = 0
    /\ now = 0
    /\ starter = IdleStarter
    /\ stopper = IdleStopper
    /\ ingest = [t \in IngestCallers |-> IdleIngest]
    /\ jobs = <<>>
    /\ nCalls = 0
    /\ appendLog = <<>>
    /\ drainLog = <<>>
    /\ fs = [dir |-> FALSE, zip |-> Absent, exe |-> Absent, model |-> Absent]
    /\ ensure = IdleEnsure
    /\ nEnsures = 0
    /\ peers = [i \in PeerIds |-> NoConn]
    /\ conn = [c \in Conns |-> IdleConn]
    /\ chan = [c \in Conns |-> <<>>]
    /\ output = <<>>
    /\ fed = <<>>
    /\ received = <<>>
    /\ nInputs = 0
    /\ threads = <<>>
    /\ scratch = NoScratch
    /\ events = <<>>
    /\ capture = NoCapture

\* No normalisation is looked at.
NoNorm == [x |-> <<>>, sample_rate |-> DefaultSampleRate,
           channels |-> DefaultChannels, y |-> <<>>, done |-> TRUE]

Init == InitProgram /\ norm = NoNorm

\* ------------------------------------------------------------------ clock

Tick ==
    /\ \E d \in TickSteps :
        /\ now + d <= MaxNow
        /\ now' = now + d
    /\ UNCHANGED <<sessionVars, starter, stopper, ingest, jobs, historyVars,
                   elsewhereVars, capture>>

\* ------------------------------------------------------- start_recording

NoDevice == [rate |-> 0, channels |-> 0]

\* Lines 317-356: the device lookup of a local capture, which fails the call
\* before anything is written, then the stores of the sample rate, the channel
\* count and the VAD configuration.  The three stores are taken as one step:
\* only start_recording writes these fields, and process_audio_chunk reads
\* them (lines 470-479) in one step too.
StartBegin ==
    /\ starter.pc = "idle"
    /\ MayCall
    /\ nCalls' = nCalls + 1
    /\ \E cfg \in StartConfigs, capture_local \in BOOLEAN,
          dev \in DeviceFormats \cup {NoDevice} :
        IF capture_local /\ dev = NoDevice
        THEN /\ starter' = [IdleStarter EXCEPT !.ret = "Err",
                                                !.dropped = starter.dropped]
             /\ UNCHANGED <<sample_rate, channels, vad_config, stopper>>
        ELSE /\ sample_rate' = IF capture_local THEN dev.rate ELSE DefaultSampleRate
             /\ channels' = IF capture_local THEN dev.channels ELSE DefaultChannels
             /\ vad_config' = cfg
             /\ starter' = [pc |-> "buffer", cfg |-> cfg, local |-> capture_local,
                            handle |-> nCalls + 1, at |-> 0,
                            dropped |-> starter.dropped,
                            clean |-> OthersIdle, ret |-> "none"]
             /\ stopper' = [stopper EXCEPT !.quiet = FALSE]
    /\ UNCHANGED <<stop_sender, audio_buffer, is_recording,
                   consecutive_silent_frames, last_transcription_time, now,
                   ingest, jobs, appendLog, drainLog, elsewhereVars, capture>>

\* The buffer of a start_recording that does not clear it.
KeptByStart == audio_buffer

\* buffer.clear() of lines 358-365
ClearedByStart == <<>>

StartClearBuffer ==
    /\ starter.pc = "buffer"
    /\ audio_buffer' = ClearedByStart
    /\ appendLog' = <<>>
    /\ drainLog' = <<>>
    /\ starter' = [starter EXCEPT !.pc = "silent_frames",
                                  !.dropped = Ids(audio_buffer)]
    /\ UNCHANGED <<stop_sender, sample_rate, channels, is_recording,
                   vad_config, consecutive_silent_frames,
                   last_transcription_time, now, stopper, ingest, jobs, nCalls,
                   elsewhereVars, capture>>

\* Lines 366-372
StartSilentFrames ==
    /\ starter.pc = "silent_frames"
    /\ SilentFramesFree
    /\ consecutive_silent_frames' = 0
    /\ starter' = [starter EXCEPT !.pc = "last_time"]
    /\ UNCHANGED <<stop_sender, audio_buffer, sample_rate, channels,
                   is_recording, vad_config, last_transcription_time, now,
                   stopper, ingest, jobs, historyVars, elsewhereVars, capture>>

\* Lines 373-379
StartLastTime ==
    /\ starter.pc = "last_time"
    /\ last_transcription_time' = now
    /\ starter' = [starter EXCEPT !.pc = "flag", !.at = now]
    /\ UNCHANGED <<stop_sender, audio_buffer, sample_rate, channels,
                   is_recording, vad_config, consecutive_silent_frames, now,
                   stopper, ingest, jobs, historyVars, elsewhereVars, capture>>

\* Lines 381-388
StartFlag ==
    /\ starter.pc = "flag"
    /\ is_recording' = TRUE
    /\ starter' = [starter EXCEPT !.pc = "sender"]
    /\ UNCHANGED <<stop_sender, audio_buffer, sample_rate, channels,
                   vad_config, consecutive_silent_frames,
                   last_transcription_time, now, stopper, ingest, jobs,
                   historyVars, elsewhereVars, capture>>

\* Lines 390-446: the new channel's sender replaces the stored one (the old
\* sender, if any, is dropped), the waiting thread is spawned, Ok(()).
StartSender ==
    /\ starter.pc = "sender"
    /\ stop_sender' = starter.handle
    /\ starter' = [starter EXCEPT !.pc = "idle", !.ret = "Ok"]
    /\ capture' = [pc |-> IF starter.local THEN "spawned" ELSE "waiting",
                   handle |-> starter.handle]
    /\ UNCHANGED <<audio_buffer, sample_rate, channels, is_recording,
                   vad_config, consecutive_silent_frames,
                   last_transcription_time, now, stopper, ingest, jobs, nCalls,
                   appendLog, drainLog, elsewhereVars>>

Start ==
    \/ StartBegin
    \/ StartClearBuffer
    \/ StartSilentFrames
    \/ StartLastTime
    \/ StartFlag
    \/ StartSender

\* -------------------------------------------------------- stop_recording

\* A step of another caller while start_recording is in flight.
Disturbed == IF starter.pc = "idle" THEN starter ELSE Disturb

\* Lines 616-622
StopFlag ==
    /\ stopper.pc = "idle"
    /\ MayCall
    /\ nCalls' = nCalls + 1
    /\ is_recording' = FALSE
    /\ stopper' = [pc |-> "take", quiet |-> starter.pc = "idle", ret |-> "none"]
    /\ starter' = Disturbed
    /\ UNCHANGED <<stop_sender, audio_buffer, sample_rate, channels,
                   vad_config, consecutive_silent_frames,
                   last_transcription_time, now, ingest, jobs, appendLog, drainLog, elsewhereVars, capture>>

\* Lines 624-630: stop_sender.take() finds the sender and signals it.
StopSignal ==
    /\ stopper.pc = "take"
    /\ stop_sender # NoHandle
    /\ stop_sender' = NoHandle
    /\ stopper' = [stopper EXCEPT !.pc = "clear"]
    /\ starter' = Disturbed
    /\ UNCHANGED <<audio_buffer, sample_rate, channels, is_recording,
                   vad_config, consecutive_silent_frames,
                   last_transcription_time, now, ingest, jobs, historyVars,
                   elsewhereVars, capture>>

\* stop_recording with the buffer cleared ahead of the check of the sender.
StopNotRecordingClears ==
    /\ stopper.pc = "take"
    /\ stop_sender = NoHandle
    /\ audio_buffer' = <<>>
    /\ stopper' = [stopper EXCEPT !.pc = "idle", !.ret = "Not recording"]
    /\ starter' = Disturbed
    /\ UNCHANGED <<stop_sender, sample_rate, channels, is_recording,
                   vad_config, consecutive_silent_frames,
                   last_transcription_time, now, ingest, jobs, historyVars,
                   elsewhereVars, capture>>

\* Lines 624-634: stop_sender.take() finds None: Err("Not recording").
StopNotRecording ==
    /\ stopper.pc = "take"
    /\ stop_sender = NoHandle
    /\ stopper' = [stopper EXCEPT !.pc = "idle", !.ret = "Not recording"]
    /\ starter' = Disturbed
    /\ UNCHANGED <<sessionVars, now, ingest, jobs, historyVars, elsewhereVars, capture>>

\* Lines 636-647: after the sleep, buffer.clear() and Ok(String::new()).  The
\* sleep delays this step and takes no lock: it orders no step of another
\* caller before the clear.
StopClear ==
    /\ stopper.pc = "clear"
    /\ audio_buffer' = <<>>
    /\ appendLog' = <<>>
    /\ drainLog' = <<>>
    /\ stopper' = [stopper EXCEPT !.pc = "idle", !.ret = "Ok"]
    /\ starter' = Disturbed
    /\ UNCHANGED <<stop_sender, sample_rate, channels, is_recording,
                   vad_config, consecutive_silent_frames,
                   last_transcription_time, now, ingest, jobs, nCalls,
                   elsewhereVars, capture>>

Stop ==
    \/ StopFlag
    \/ StopSignal
    \/ StopNotRecording
    \/ StopClear

\* --------------------------------------------------- process_audio_chunk

\* Every step below leaves these alone.
IngestFrame ==
    /\ starter' = Disturbed
    /\ UNCHANGED <<stop_sender, sample_rate, channels, is_recording,
                   vad_config, now, stopper, elsewhereVars, capture>>

\* The chunk a call is made with: len blocks of value v, each named by the
\* call and its place in the chunk.
NewChunk(len, v) == [i \in 1..len |-> [id |-> <<nCalls + 1, i>>, v |-> v]]

\* The call going on to the buffer without a look at the flag.
CallAfterCheckAlways(chunk) ==
    [IdleIngest EXCEPT !.pc = "append", !.data = chunk]

\* Lines 452-460: the call after its read of is_recording: it goes on with its
\* chunk, or has returned.
CallAfterCheck(chunk) ==
    IF is_recording
    THEN [IdleIngest EXCEPT !.pc = "append", !.data = chunk]
    ELSE IdleIngest

\* Lines 450-460: the call and its read of is_recording; a call made while the
\* flag is false returns at once.
IngestCheck(t) ==
    /\ ingest[t].pc = "idle"
    /\ MayCall
    /\ nCalls' = nCalls + 1
    /\ \E k \in ChunkKinds :
        ingest' = [ingest EXCEPT ![t] = CallAfterCheck(NewChunk(k[1], k[2]))]
    /\ IngestFrame
    /\ UNCHANGED <<audio_buffer, consecutive_silent_frames,
                   last_transcription_time, jobs, appendLog, drainLog>>

\* Lines 462-468
IngestAppend(t) ==
    /\ ingest[t].pc = "append"
    /\ audio_buffer' = audio_buffer \o ingest[t].data
    /\ appendLog' = appendLog \o ingest[t].data
    /\ ingest' = [ingest EXCEPT ![t].pc = "config"]
    /\ IngestFrame
    /\ UNCHANGED <<consecutive_silent_frames, last_transcription_time, jobs,
                   nCalls, drainLog>>

\* Lines 470-481: the reads of the VAD configuration, the sample rate and the
\* channel count, and the branch on vad_config.enabled.  A local no later line
\* reads is not kept: the non-VAD branch does not read data.
IngestConfig(t) ==
    /\ ingest[t].pc = "config"
    /\ ingest' = [ingest EXCEPT
                    ![t].pc = IF vad_config.enabled THEN "silent" ELSE "timer",
                    ![t].data = IF vad_config.enabled THEN @ ELSE <<>>,
                    ![t].cfg = vad_config,
                    ![t].sr = sample_rate,
                    ![t].ch = channels]
    /\ IngestFrame
    /\ UNCHANGED <<audio_buffer, consecutive_silent_frames,
                   last_transcription_time, jobs, nCalls, appendLog, drainLog>>

\* Lines 482-483: is_silent
IsSilent(data, cfg) == calculate_rms_db(data) < cfg.silence_threshold_db

\* Lines 490-502: the counter after a chunk
SilentFramesAfter(count, silent) == IF silent THEN count + 1 ELSE 0

IngestSilent(t) ==
    /\ ingest[t].pc = "silent"
    /\ SilentFramesFree
    /\ consecutive_silent_frames' =
         SilentFramesAfter(consecutive_silent_frames,
                           IsSilent(ingest[t].data, ingest[t].cfg))
    /\ ingest' = [ingest EXCEPT ![t].pc = "count"]
    /\ IngestFrame
    /\ UNCHANGED <<audio_buffer, last_transcription_time, jobs, nCalls,
                   appendLog, drainLog>>

\* Lines 504-507
IngestCount(t) ==
    /\ ingest[t].pc = "count"
    /\ SilentFramesFree
    /\ ingest' = [ingest EXCEPT ![t].pc = "elapsed",
                                ![t].cnt = consecutive_silent_frames]
    /\ IngestFrame
    /\ UNCHANGED <<audio_buffer, consecutive_silent_frames,
                   last_transcription_time, jobs, nCalls, appendLog, drainLog>>

\* The trigger on either of the two conditions.
VadTriggerEither(data, cfg, ch, sr, count, elapsed) ==
    \/ count * ChunkDurationMs(data, ch, sr) >= cfg.silence_duration_ms
    \/ elapsed >= cfg.min_chunk_duration_ms

\* Lines 510-530: the condition of the VAD trigger, from the call's locals
VadTrigger(data, cfg, ch, sr, count, elapsed) ==
    /\ count * ChunkDurationMs(data, ch, sr) >= cfg.silence_duration_ms
    /\ elapsed >= cfg.min_chunk_duration_ms

\* Lines 518-530 and 544-546: the elapsed time is read under the lock, then the
\* trigger is decided; should_process = false ends the call.  After the
\* decision only sample_rate and channels are read again (line 594).
IngestElapsed(t) ==
    /\ ingest[t].pc = "elapsed"
    /\ LET c == ingest[t]
       IN  ingest' = [ingest EXCEPT ![t] =
                        IF VadTrigger(c.data, c.cfg, c.ch, c.sr, c.cnt, ElapsedMs)
                        THEN [c EXCEPT !.pc = "reset_frames", !.data = <<>>,
                                       !.cnt = 0]
                        ELSE IdleIngest]
    /\ IngestFrame
    /\ UNCHANGED <<audio_buffer, consecutive_silent_frames,
                   last_transcription_time, jobs, nCalls, appendLog, drainLog>>

\* Lines 532-536: the guard stays held
IngestResetFrames(t) ==
    /\ ingest[t].pc = "reset_frames"
    /\ SilentFramesFree
    /\ consecutive_silent_frames' = 0
    /\ ingest' = [ingest EXCEPT ![t].pc = "reset_time"]
    /\ IngestFrame
    /\ UNCHANGED <<audio_buffer, last_transcription_time, jobs, nCalls,
                   appendLog, drainLog>>

\* Lines 538-543: both guards are released
IngestResetTime(t) ==
    /\ ingest[t].pc = "reset_time"
    /\ last_transcription_time' = now
    /\ ingest' = [ingest EXCEPT ![t].pc = "recheck"]
    /\ IngestFrame
    /\ UNCHANGED <<audio_buffer, consecutive_silent_frames, jobs, nCalls,
                   appendLog, drainLog>>

\* The timer that fires only after a whole second more than the interval.
TimerTriggerAbove(elapsed) == elapsed \div 1000 > CHUNK_DURATION_SECS

\* Line 555: last_trans_time.elapsed().as_secs() >= CHUNK_DURATION_SECS
TimerTrigger(elapsed) == elapsed \div 1000 >= CHUNK_DURATION_SECS

\* Lines 551-556 and 563-565
IngestTimer(t) ==
    /\ ingest[t].pc = "timer"
    /\ ingest' = [ingest EXCEPT ![t] =
                    IF TimerTrigger(ElapsedMs)
                    THEN [ingest[t] EXCEPT !.pc = "timer_set"]
                    ELSE IdleIngest]
    /\ IngestFrame
    /\ UNCHANGED <<audio_buffer, consecutive_silent_frames,
                   last_transcription_time, jobs, nCalls, appendLog, drainLog>>

\* Lines 557-562
IngestTimerSet(t) ==
    /\ ingest[t].pc = "timer_set"
    /\ last_transcription_time' = now
    /\ ingest' = [ingest EXCEPT ![t].pc = "recheck"]
    /\ IngestFrame
    /\ UNCHANGED <<audio_buffer, consecutive_silent_frames, jobs, nCalls,
                   appendLog, drainLog>>

\* Lines 568-575
IngestRecheck(t) ==
    /\ ingest[t].pc = "recheck"
    /\ ingest' = [ingest EXCEPT ![t] =
                    IF is_recording THEN [ingest[t] EXCEPT !.pc = "drain"]
                    ELSE IdleIngest]
    /\ IngestFrame
    /\ UNCHANGED <<audio_buffer, consecutive_silent_frames,
                   last_transcription_time, jobs, nCalls, appendLog, drainLog>>

\* The drain without buffer.clear().
BufferKeptAfterDrain(buffer) == buffer

\* Lines 577-585: what the buffer holds after chunk = buffer.clone() and
\* buffer.clear()
BufferAfterDrain(buffer) == <<>>

\* The length check with a chunk of exactly the minimum dropped too.
JobsAfterDrainAbove(chunk, sr, ch) ==
    IF SampleCount(chunk) <= MinSegmentSamples THEN jobs
    ELSE Append(jobs, [chunk |-> chunk, sample_rate |-> sr, channels |-> ch])

\* Lines 587-602: the threads running after a drained chunk was looked at
JobsAfterDrain(chunk, sr, ch) ==
    IF SampleCount(chunk) < MinSegmentSamples THEN jobs
    ELSE Append(jobs, [chunk |-> chunk, sample_rate |-> sr, channels |-> ch])

\* Lines 577-603: the drain under the buffer lock, the length check and the
\* spawn of the transcription thread.
IngestDrain(t) ==
    /\ ingest[t].pc = "drain"
    /\ audio_buffer' = BufferAfterDrain(audio_buffer)
    /\ drainLog' = Append(drainLog, audio_buffer)
    /\ jobs' = JobsAfterDrain(audio_buffer, ingest[t].sr, ingest[t].ch)
    /\ ingest' = [ingest EXCEPT ![t] = IdleIngest]
    /\ IngestFrame
    /\ UNCHANGED <<consecutive_silent_frames, last_transcription_time, nCalls,
                   appendLog>>

Ingest(t) ==
    \/ IngestCheck(t)
    \/ IngestAppend(t)
    \/ IngestConfig(t)
    \/ IngestSilent(t)
    \/ IngestCount(t)
    \/ IngestElapsed(t)
    \/ IngestResetFrames(t)
    \/ IngestResetTime(t)
    \/ IngestTimer(t)
    \/ IngestTimerSet(t)
    \/ IngestRecheck(t)
    \/ IngestDrain(t)

\* ------------------------------------------------------ the specification

Next ==
    \/ Tick
    \/ Start
    \/ Stop
    \/ \E t \in IngestCallers : Ingest(t)

Spec == Init /\ [][Next]_vars

\* --------------------------------------------------- ensure_dependencies

\* The bytes of the release archive and of the model the pinned hashes were
\* taken from, and the bodies a download may deliver: the artifact, or the
\* artifact with one byte changed.
ZipBytes == <<1, 2>>

ModelBytes == <<3, 4>>

Corrupted(bytes) == [bytes EXCEPT ![Len(bytes)] = 9]

ServedBodies(bytes) == {bytes, Corrupted(bytes)}

\* Sha256 and hex::encode: a digest that tells any two of the byte strings
\* of the model apart.
RECURSIVE Sha256Hex(_)
Sha256Hex(bytes) ==
    IF bytes = <<>> THEN 0
    ELSE 10 * Sha256Hex(SubSeq(bytes, 1, Len(bytes) - 1)) + bytes[Len(bytes)]

WHISPER_ZIP_HASH == Sha256Hex(ZipBytes)

MODEL_HASH == Sha256Hex(ModelBytes)

\* verify_file, lines 86-106, on a file that could be opened and read
HashMatches(file, expected_hash) == Sha256Hex(file.data) = expected_hash

\* archive.extract: the bytes of main.exe unpacked from the archive's bytes
Extracted(bytes) == [i \in 1..Len(bytes) |-> bytes[i] + 10]

\* The proper prefixes of a byte string: what a write that failed left behind.
Prefixes(bytes) == {SubSeq(bytes, 1, n) : n \in 0..(Len(bytes) - 1)}

EnsureFrame ==
    UNCHANGED <<sessionVars, now, starter, stopper, ingest, jobs, historyVars,
                relayVars, transcribeVars, capture, norm>>

\* The call returns Err(msg); the body it held is remembered.
Fail(msg) == [IdleEnsure EXCEPT !.ret = msg, !.got = ensure.got]

\* The model branch entered whether or not the model file exists.
AfterEngineAlways(files) == [IdleEnsure EXCEPT !.pc = "model_get"]

\* Lines 156-158 and 195-197: past the engine branch, the model branch is
\* entered when the model file is missing, else the call returns Ok(()).
AfterEngine(files) ==
    IF files.model.exists THEN [IdleEnsure EXCEPT !.ret = "Ok"]
    ELSE [IdleEnsure EXCEPT !.pc = "model_get"]

\* Lines 109-124: the directory is created if missing (which may fail), then
\* the engine branch is entered when main.exe is missing.
EnsureBegin ==
    /\ ensure.pc = "idle"
    /\ nEnsures < MaxEnsures
    /\ nEnsures' = nEnsures + 1
    /\ \/ /\ ~fs.dir
          /\ ensure' = Fail("io")
          /\ UNCHANGED fs
       \/ /\ fs' = [fs EXCEPT !.dir = TRUE]
          /\ ensure' = IF fs.exe.exists THEN AfterEngine(fs)
                       ELSE [IdleEnsure EXCEPT !.pc = "zip_get"]
    /\ EnsureFrame

\* Lines 131-138: the request and the read of the whole body
EnsureZipGet ==
    /\ ensure.pc = "zip_get"
    /\ \/ ensure' = Fail("Failed to download whisper")
       \/ \E body \in ServedBodies(ZipBytes) :
            ensure' = [ensure EXCEPT !.pc = "zip_write", !.got = body]
    /\ UNCHANGED <<fs, nEnsures>>
    /\ EnsureFrame

\* Lines 140-142: File::create(&zip_path) and write_all
EnsureZipWrite ==
    /\ ensure.pc = "zip_write"
    /\ \/ /\ ensure' = Fail("io")
          /\ UNCHANGED fs
       \/ /\ ensure' = Fail("io")
          /\ \E part \in Prefixes(ensure.got) :
                fs' = [fs EXCEPT !.zip = FileOf(part)]
       \/ /\ ensure' = [ensure EXCEPT !.pc = "zip_verify"]
          /\ fs' = [fs EXCEPT !.zip = FileOf(ensure.got)]
    /\ UNCHANGED nEnsures
    /\ EnsureFrame

\* Lines 146-147: what is left at zip_path when verify_file failed, with
\* fs::remove_file taken to succeed (its result is dropped by .ok())
ZipAfterFailedVerify(file) == Absent

\* Lines 144-148: verify_file fails on a read error or on a mismatch
EnsureZipVerify ==
    /\ ensure.pc = "zip_verify"
    /\ \/ /\ ensure' = Fail("Security check failed for Whisper binary")
          /\ fs' = [fs EXCEPT !.zip = ZipAfterFailedVerify(fs.zip)]
       \/ /\ HashMatches(fs.zip, WHISPER_ZIP_HASH)
          /\ ensure' = [ensure EXCEPT !.pc = "extract"]
          /\ UNCHANGED fs
    /\ UNCHANGED nEnsures
    /\ EnsureFrame

\* Lines 150-156: the archive is opened and extracted, which may fail before
\* main.exe is created or while it is written; then the archive is removed.
EnsureExtract ==
    /\ ensure.pc = "extract"
    /\ \/ /\ ensure' = Fail("io")
          /\ UNCHANGED fs
       \/ /\ ensure' = Fail("io")
          /\ \E part \in Prefixes(Extracted(fs.zip.data)) :
                fs' = [fs EXCEPT !.exe = FileOf(part)]
       \/ /\ fs' = [fs EXCEPT !.exe = FileOf(Extracted(fs.zip.data)),
                              !.zip = Absent]
          /\ ensure' = AfterEngine(fs)
    /\ UNCHANGED nEnsures
    /\ EnsureFrame

\* Lines 161-167: the request; the body then arrives as a stream
EnsureModelGet ==
    /\ ensure.pc = "model_get"
    /\ \/ ensure' = Fail("Failed to download model")
       \/ \E body \in ServedBodies(ModelBytes), sized \in BOOLEAN :
            ensure' = [ensure EXCEPT !.pc = "model_create", !.got = body,
                                     !.sized = sized]
    /\ UNCHANGED <<fs, nEnsures>>
    /\ EnsureFrame

\* Line 168: File::create(&model_path)
EnsureModelCreate ==
    /\ ensure.pc = "model_create"
    /\ \/ /\ ensure' = Fail("io")
          /\ UNCHANGED fs
       \/ /\ ensure' = [ensure EXCEPT !.pc = "model_stream"]
          /\ fs' = [fs EXCEPT !.model = FileOf(<<>>)]
    /\ UNCHANGED nEnsures
    /\ EnsureFrame

\* Line 176: the progress emitted once downloaded bytes of total are written
Progress(downloaded, total) == (downloaded * 100) \div total

\* Lines 170-186: one turn of the loop: the stream ends, or its next chunk
\* fails to arrive, or the write fails, or the chunk is written and the
\* progress emitted when the total size is known.
EnsureModelStream ==
    /\ ensure.pc = "model_stream"
    /\ LET written == Len(fs.model.data)
       IN  \/ /\ written = Len(ensure.got)
              /\ ensure' = [ensure EXCEPT !.pc = "model_verify"]
              /\ UNCHANGED fs
           \/ /\ written < Len(ensure.got)
              /\ ensure' = Fail("Failed to read chunk")
              /\ UNCHANGED fs
           \/ /\ written < Len(ensure.got)
              /\ ensure' = Fail("io")
              /\ UNCHANGED fs
           \/ /\ written < Len(ensure.got)
              /\ fs' = [fs EXCEPT !.model.data = Append(@, ensure.got[written + 1])]
              /\ ensure' = [ensure EXCEPT !.progress =
                              IF ensure.sized
                              THEN Progress(written + 1, Len(ensure.got)) ELSE @]
    /\ UNCHANGED nEnsures
    /\ EnsureFrame

\* The model file left in place when verify_file failed.
ModelKeptAfterFailedVerify(file) == file

\* Lines 190-191: what is left at model_path when verify_file failed, with
\* fs::remove_file taken to succeed (its result is dropped by .ok())
ModelAfterFailedVerify(file) == Absent

\* Lines 188-197
EnsureModelVerify ==
    /\ ensure.pc = "model_verify"
    /\ \/ /\ ensure' = Fail("Security check failed for Whisper model")
          /\ fs' = [fs EXCEPT !.model = ModelAfterFailedVerify(fs.model)]
       \/ /\ HashMatches(fs.model, MODEL_HASH)
          /\ ensure' = [IdleEnsure EXCEPT !.ret = "Ok", !.got = ensure.got]
          /\ UNCHANGED fs
    /\ UNCHANGED nEnsures
    /\ EnsureFrame

Ensure ==
    \/ EnsureBegin
    \/ EnsureZipGet
    \/ EnsureZipWrite
    \/ EnsureZipVerify
    \/ EnsureExtract
    \/ EnsureModelGet
    \/ EnsureModelCreate
    \/ EnsureModelStream
    \/ EnsureModelVerify

\* The provisioner alone.
SpecEnsure == Init /\ [][Ensure]_vars

\* ------------------------------------------------------------ web/pubsub.rs

\* The frames a connection may deliver: two text frames, a binary frame of two
\* little-endian f32 values, an empty binary frame, a binary frame of a length
\* that is not a multiple of 4, and a ping.
Frames ==
    { [kind |-> "text", text |-> "t1", bytes |-> <<>>],
      [kind |-> "text", text |-> "t2", bytes |-> <<>>],
      [kind |-> "binary", text |-> "", bytes |-> <<0, 0, 128, 63, 1, 2, 3, 4>>],
      [kind |-> "binary", text |-> "", bytes |-> <<>>],
      [kind |-> "binary", text |-> "", bytes |-> <<1, 2, 3, 4, 5, 6>>],
      [kind |-> "ping", text |-> "", bytes |-> <<>>] }

\* The messages the input channel may carry.
Inputs == {"in"}

\* f32::from_le_bytes, as the bit pattern of the value
F32FromLeBytes(b) == b[1] + 256 * b[2] + 65536 * b[3] + 16777216 * b[4]

\* Lines 79-82: chunks_exact(4) mapped through from_le_bytes
Samples(bytes) ==
    [i \in 1..(Len(bytes) \div 4) |->
        F32FromLeBytes(SubSeq(bytes, 4 * i - 3, 4 * i))]

\* Lines 652-655: the plugin's setup manages a WhisperState, so try_state
\* finds it.
WhisperManaged == TRUE

\* Every binary frame converted, whatever its length.
ForwardedAlways(bytes) == <<Samples(bytes)>>

\* Lines 78-90: the chunks a binary frame hands to process_audio_chunk
Forwarded(bytes) ==
    IF Len(bytes) % 4 = 0 /\ WhisperManaged THEN <<Samples(bytes)>> ELSE <<>>

\* The channels of every registry entry, the sender's included.
BroadcastTargetsAll(c) ==
    {peers[i] : i \in {j \in PeerIds : peers[j] # NoConn}}

\* Lines 97-101: the channels a text frame of connection c is sent on: those
\* of the entries whose key is not c's identifier.
BroadcastTargets(c) ==
    {peers[i] : i \in {j \in PeerIds : j # PeerId(c) /\ peers[j] # NoConn}}

\* chan after msg was sent on the channels of targets
Enqueued(targets, msg) ==
    [d \in Conns |-> IF d \in targets THEN Append(chan[d], msg) ELSE chan[d]]

RelayFrame ==
    UNCHANGED <<sessionVars, now, starter, stopper, ingest, jobs, historyVars,
                provisionVars, transcribeVars, capture, norm>>

\* Lines 53-59: the upgrade: the socket is split and the outbound channel made.
Upgrade(c) ==
    /\ conn[c].pc = "none"
    /\ conn' = [conn EXCEPT ![c].pc = "check"]
    /\ UNCHANGED <<peers, chan, output, fed, received, nInputs>>
    /\ RelayFrame

\* Lines 61-64: contains_key under the read lock, which is released at the end
\* of the statement.
CheckRegistered(c) ==
    /\ conn[c].pc = "check"
    /\ conn' = [conn EXCEPT ![c].pc =
                    IF peers[PeerId(c)] # NoConn THEN "rejected" ELSE "insert"]
    /\ UNCHANGED <<peers, chan, output, fed, received, nInputs>>
    /\ RelayFrame

\* Line 66: insert under the write lock; HashMap::insert replaces an entry.
Register(c) ==
    /\ conn[c].pc = "insert"
    /\ peers' = [peers EXCEPT ![PeerId(c)] = c]
    /\ conn' = [conn EXCEPT ![c].pc = "serving"]
    /\ UNCHANGED <<chan, output, fed, received, nInputs>>
    /\ RelayFrame

\* Lines 68-94: the next frame.  A binary frame is converted and handed to
\* process_audio_chunk, or dropped, and the loop continues; a text frame goes
\* on to the sink; to_str fails on any other frame and the loop is left.
Receive(c) ==
    /\ conn[c].pc = "serving"
    /\ Len(received) < MaxFrames
    /\ \E f \in Frames :
        /\ received' = Append(received, [from |-> c, frame |-> f])
        /\ fed' = IF f.kind = "binary" THEN fed \o Forwarded(f.bytes) ELSE fed
        /\ conn' = [conn EXCEPT ![c] =
                        CASE f.kind = "binary" -> conn[c]
                          [] f.kind = "text" -> [pc |-> "output", msg |-> f.text]
                          [] OTHER -> [pc |-> "remove", msg |-> ""]]
    /\ UNCHANGED <<peers, chan, output, nInputs>>
    /\ RelayFrame

\* Lines 68-71: the stream ends or yields an error.
Lost(c) ==
    /\ conn[c].pc = "serving"
    /\ conn' = [conn EXCEPT ![c].pc = "remove"]
    /\ UNCHANGED <<peers, chan, output, fed, received, nInputs>>
    /\ RelayFrame

\* Line 95
SendOutput(c) ==
    /\ conn[c].pc = "output"
    /\ output' = Append(output, conn[c].msg)
    /\ conn' = [conn EXCEPT ![c].pc = "broadcast"]
    /\ UNCHANGED <<peers, chan, fed, received, nInputs>>
    /\ RelayFrame

\* Lines 96-102: the loop over the registry under the read lock
Broadcast(c) ==
    /\ conn[c].pc = "broadcast"
    /\ chan' = Enqueued(BroadcastTargets(c), conn[c].msg)
    /\ conn' = [conn EXCEPT ![c] = [pc |-> "serving", msg |-> ""]]
    /\ UNCHANGED <<peers, output, fed, received, nInputs>>
    /\ RelayFrame

\* Line 104: remove under the write lock, by key
Unregister(c) ==
    /\ conn[c].pc = "remove"
    /\ peers' = [peers EXCEPT ![PeerId(c)] = NoConn]
    /\ conn' = [conn EXCEPT ![c].pc = "closed"]
    /\ UNCHANGED <<chan, output, fed, received, nInputs>>
    /\ RelayFrame

\* Lines 27-37: a message of the input channel is sent to every entry.
InputBroadcast ==
    /\ nInputs < MaxInputs
    /\ nInputs' = nInputs + 1
    /\ \E m \in Inputs :
        chan' = Enqueued({peers[i] : i \in {j \in PeerIds : peers[j] # NoConn}}, m)
    /\ UNCHANGED <<peers, conn, output, fed, received>>
    /\ RelayFrame

Relay ==
    \/ InputBroadcast
    \/ \E c \in Conns :
        \/ Upgrade(c)
        \/ CheckRegistered(c)
        \/ Register(c)
        \/ Receive(c)
        \/ Lost(c)
        \/ SendOutput(c)
        \/ Broadcast(c)
        \/ Unregister(c)

\* The relay alone.
SpecRelay == Init /\ [][Relay]_vars

\* ------------------------------------- the normalisation of transcribe_chunk

\* The sample values, the source rates and the channel counts a normalisation
\* is looked at with.  A sample is an f32 given as its multiple of 2^-11; the
\* sums of two of the values are even, so their f32 average is exact.
SampleValues == {-1000, 0, 600}

SourceRates == {8000, 16000, 48000}

SourceChannels == {1, 2}

RECURSIVE SeqsUpTo(_, _)
SeqsUpTo(S, n) ==
    IF n = 0 THEN {<<>>}
    ELSE LET shorter == SeqsUpTo(S, n - 1)
         IN  shorter \cup {Append(q, v) : q \in {r \in shorter : Len(r) = n - 1},
                                           v \in S}

\* The averaging of adjacent pairs whatever the channel count.
DownmixAlways(audio_data, ch) ==
    [k \in 1..(Len(audio_data) \div 2) |->
        (audio_data[2 * k - 1] + audio_data[2 * k]) \div 2]

\* Lines 211-220: chunks_exact(2) averaged when channels == 2, else the data
\* as it is.
Downmix(audio_data, ch) ==
    IF ch = 2
    THEN [k \in 1..(Len(audio_data) \div 2) |->
            (audio_data[2 * k - 1] + audio_data[2 * k]) \div 2]
    ELSE audio_data

\* The f32 arithmetic of lines 226-232.  An f32 has 24 significant bits and
\* every operation rounds to the nearest f32, ties to the even one.  The
\* lengths and indices are below 2^24, so their conversions to f32 are exact.
\* No intermediate value below reaches 2^31.

\* The place of the leading bit of n; -1 for 0
RECURSIVE Log2Floor(_)
Log2Floor(n) ==
    IF n <= 0 THEN -1
    ELSE IF n = 1 THEN 0 ELSE 1 + Log2Floor(n \div 2)

\* The long division of 16000 by sr, a bit at a time, until the quotient q of
\* 16000 * 2^s by sr has 24 bits; r is the remainder.
RECURSIVE RatioBits(_, _, _, _)
RatioBits(q, r, s, sr) ==
    IF q >= 2^23 THEN [q |-> q, r |-> r, s |-> s]
    ELSE RatioBits(2 * q + (IF 2 * r >= sr THEN 1 ELSE 0),
                   IF 2 * r >= sr THEN 2 * r - sr ELSE 2 * r,
                   s + 1, sr)

\* Line 226: ratio = 16000.0 / sample_rate as f32, as m / 2^s
Ratio(sr) ==
    LET d == RatioBits(16000 \div sr, 16000 % sr, 0, sr)
        up == 2 * d.r > sr \/ (2 * d.r = sr /\ d.q % 2 = 1)
    IN  [m |-> IF up THEN d.q + 1 ELSE d.q, s |-> d.s]

\* Line 227: target_len = (mono_data.len() as f32 * ratio) as usize.  The
\* product n * m / 2^s is taken in two halves of m; it is rounded to 24 bits,
\* which reaches the next integer when it is within half a step of it, and
\* then truncated.
TargetLen(n, ratio) ==
    LET mh == ratio.m \div 4096
        ml == ratio.m % 4096
        a == n * mh + (n * ml) \div 4096
        b == (n * ml) % 4096
        whole == a \div 2^(ratio.s - 12)
        num == (a % 2^(ratio.s - 12)) * 4096 + b
        k == Log2Floor(whole)
        up == /\ num > 0
              /\ ratio.s - 24 + k >= 0
              /\ 2^ratio.s - num <= 2^(ratio.s - 24 + k)
    IN  IF up THEN whole + 1 ELSE whole

\* The long division of i * 2^s by m: s more bits of the quotient
RECURSIVE DivBits(_, _, _, _)
DivBits(q, r, s, m) ==
    IF s = 0 THEN [q |-> q, r |-> r]
    ELSE DivBits(2 * q + (IF 2 * r >= m THEN 1 ELSE 0),
                 IF 2 * r >= m THEN 2 * r - m ELSE 2 * r,
                 s - 1, m)

\* Line 232: src_idx = (i as f32 / ratio) as usize, rounded and truncated as
\* the product above
SrcIdx(i, ratio) ==
    LET d == DivBits(i \div ratio.m, i % ratio.m, ratio.s, ratio.m)
        k == Log2Floor(d.q)
        up == /\ d.r > 0
              /\ k < 24
              /\ ratio.m - d.r <= ratio.m \div 2^(24 - k)
    IN  IF up THEN d.q + 1 ELSE d.q

\* Lines 225-240: nearest-index resampling when sample_rate != 16000; a
\* source index is pushed only when it is in range.
Resample(mono_data, sr) ==
    IF sr # 16000
    THEN LET ratio == Ratio(sr)
             target_len == TargetLen(Len(mono_data), ratio)
             InRange(src_idx) == src_idx < Len(mono_data)
             picked == SelectSeq([i \in 1..target_len |-> SrcIdx(i - 1, ratio)],
                                 InRange)
         IN  [k \in 1..Len(picked) |-> mono_data[picked[k] + 1]]
    ELSE mono_data

\* Lines 211-240: resampled_data
Normalize(audio_data, sr, ch) == Resample(Downmix(audio_data, ch), sr)

\* A tenth of a second of a 44100 Hz device: a stereo chunk of the constant
\* 0.5 and a mono chunk whose k-th sample has the value k.
LongInputs ==
    { [x |-> [k \in 1..(2 * LongSamples) |-> 1024], sample_rate |-> 44100,
       channels |-> 2, y |-> <<>>, done |-> FALSE],
      [x |-> [k \in 1..LongSamples |-> k], sample_rate |-> 44100,
       channels |-> 1, y |-> <<>>, done |-> FALSE] }

InitNormalize ==
    /\ InitProgram
    /\ norm \in [x : SeqsUpTo(SampleValues, MaxSamples),
                  sample_rate : SourceRates, channels : SourceChannels,
                  y : {<<>>}, done : {FALSE}]
                 \cup LongInputs

NormalizeCall ==
    /\ ~ norm.done
    /\ norm' = [norm EXCEPT !.y = Normalize(norm.x, norm.sample_rate, norm.channels),
                            !.done = TRUE]
    /\ UNCHANGED <<sessionVars, now, starter, stopper, ingest, jobs, historyVars,
                   provisionVars, relayVars, transcribeVars, capture>>

\* One normalisation of each input.
SpecNormalize == InitNormalize /\ [][NormalizeCall]_vars

\* ---------------------------------------- the threads of the recording session

WorkerFrame ==
    UNCHANGED <<sessionVars, now, starter, stopper, ingest, jobs, historyVars,
                provisionVars, relayVars, norm>>

\* Lines 408-431: the capture thread builds the input stream and plays it, or
\* finds a sample format other than F32, or build_input_stream or play fails:
\* it logs and returns.  start_recording returned Ok(()) before.
CaptureBuild ==
    /\ capture.pc = "spawned"
    /\ \E built \in BOOLEAN :
        capture' = [capture EXCEPT !.pc = IF built THEN "streaming" ELSE "failed"]
    /\ UNCHANGED transcribeVars
    /\ WorkerFrame

\* Lines 432-433 and 441: rx.recv() returns once the sender of the thread's
\* channel was used or dropped: taken by stop_recording or replaced by a later
\* start_recording.
CaptureStop ==
    /\ capture.pc \in {"streaming", "waiting"}
    /\ stop_sender # capture.handle
    /\ capture' = [capture EXCEPT !.pc = "stopped"]
    /\ UNCHANGED transcribeVars
    /\ WorkerFrame

CaptureThread == CaptureBuild \/ CaptureStop

\* What the engine may print on standard output, as a sequence of characters:
\* a transcript within white space, white space alone, nothing.
Whitespace == {" ", "\n"}

EngineOutputs == {<<" ", "h", "i", "\n">>, <<" ", "\n">>, <<>>}

\* str::trim
RECURSIVE TrimStart(_)
TrimStart(text) ==
    IF text # <<>> /\ Head(text) \in Whitespace THEN TrimStart(Tail(text))
    ELSE text

RECURSIVE TrimEnd(_)
TrimEnd(text) ==
    IF text # <<>> /\ text[Len(text)] \in Whitespace
    THEN TrimEnd(SubSeq(text, 1, Len(text) - 1))
    ELSE text

Trim(text) == TrimEnd(TrimStart(text))

\* A transcription thread: its place in transcribe_chunk, what its engine
\* printed and how it exited, what transcribe_chunk returned, and how many
\* jobs had been dispatched and whether the session was recording when it
\* returned.
NewThread ==
    [pc |-> "create", stdout |-> <<>>, success |-> FALSE, ret |-> "none",
     seen |-> 0, rec |-> FALSE]

Returned(th, r) ==
    [th EXCEPT !.pc = "done", !.ret = r, !.seen = Len(jobs),
               !.rec = is_recording]

\* Lines 592-594: the thread spawned for the next job begins to run.
ThreadStart ==
    /\ Len(threads) < Len(jobs)
    /\ threads' = Append(threads, NewThread)
    /\ UNCHANGED <<scratch, events, capture>>
    /\ WorkerFrame

\* Lines 201-252: the paths, the normalisation of the samples, and
\* WavWriter::create(&temp_wav), which truncates a file already there.  A
\* failure returns Err with no file touched.
ThreadCreate(i) ==
    /\ i <= Len(threads)
    /\ threads[i].pc = "create"
    /\ \/ /\ threads' = [threads EXCEPT ![i] = Returned(@, "Err")]
          /\ UNCHANGED scratch
       \/ /\ threads' = [threads EXCEPT ![i].pc = "write"]
          /\ scratch' = [exists |-> TRUE, of |-> i, data |-> "partial"]
    /\ UNCHANGED <<events, capture>>
    /\ WorkerFrame

\* Lines 253-259: the samples are written and the writer finalised.  A
\* failure returns Err by ? and leaves the file as it is.
ThreadWrite(i) ==
    /\ i <= Len(threads)
    /\ threads[i].pc = "write"
    /\ \/ /\ threads' = [threads EXCEPT ![i] = Returned(@, "Err")]
          /\ UNCHANGED scratch
       \/ /\ threads' = [threads EXCEPT ![i].pc = "spawn"]
          /\ scratch' = IF scratch.exists /\ scratch.of = i
                        THEN [scratch EXCEPT !.data = "full"]
                        ELSE IF scratch.exists
                             THEN [scratch EXCEPT !.data = "mixed"]
                             ELSE scratch
    /\ UNCHANGED <<events, capture>>
    /\ WorkerFrame

\* What is at temp_wav after a failed Command::output: line 279 was not
\* reached.
ScratchAfterSpawnFailure == scratch

\* Lines 262-277: Command::output fails to start the engine and ? returns, or
\* the engine starts.
ThreadSpawn(i) ==
    /\ i <= Len(threads)
    /\ threads[i].pc = "spawn"
    /\ \/ /\ threads' = [threads EXCEPT ![i] = Returned(@, "Err")]
          /\ scratch' = ScratchAfterSpawnFailure
       \/ /\ threads' = [threads EXCEPT ![i].pc = "running"]
          /\ UNCHANGED scratch
    /\ UNCHANGED <<events, capture>>
    /\ WorkerFrame

\* Lines 276-277: the engine exits, with a status and its standard output.
ThreadExit(i) ==
    /\ i <= Len(threads)
    /\ threads[i].pc = "running"
    /\ \E ok \in BOOLEAN, out \in EngineOutputs :
        threads' = [threads EXCEPT ![i].pc = "remove", ![i].success = ok,
                                   ![i].stdout = out]
    /\ UNCHANGED <<scratch, events, capture>>
    /\ WorkerFrame

\* The result with the exit status not looked at.
TranscribeResultAnyStatus(th) == [ok |-> TRUE, text |-> Trim(th.stdout)]

\* Lines 285-290: what transcribe_chunk returns after the engine has run
TranscribeResult(th) ==
    IF th.success THEN [ok |-> TRUE, text |-> Trim(th.stdout)]
    ELSE [ok |-> FALSE, text |-> <<>>]

\* The closure emitting only while the session records.
EventsAfterWhileRecording(i, result) ==
    IF result.ok /\ Trim(result.text) # <<>> /\ is_recording
    THEN Append(events, [job |-> i, text |-> result.text])
    ELSE events

\* Lines 594-602: the closure of the thread emits whisper:partial_result for
\* Ok(text) with text.trim() not empty, and logs an Err.
EventsAfter(i, result) ==
    IF result.ok /\ Trim(result.text) # <<>>
    THEN Append(events, [job |-> i, text |-> result.text])
    ELSE events

\* Lines 279-290 and 594-602: fs::remove_file(&temp_wav).ok(), the result, and
\* the event of the closure.  The removal is taken to succeed when the file is
\* there.
ThreadRemove(i) ==
    /\ i <= Len(threads)
    /\ threads[i].pc = "remove"
    /\ scratch' = NoScratch
    /\ LET result == TranscribeResult(threads[i])
       IN  /\ threads' = [threads EXCEPT ![i] =
                            Returned(@, IF result.ok THEN "Ok" ELSE "Err")]
           /\ events' = EventsAfter(i, result)
    /\ UNCHANGED capture
    /\ WorkerFrame

\* The thread of job i; no behaviour has more jobs than calls.
Thread(i) ==
    \/ ThreadCreate(i)
    \/ ThreadWrite(i)
    \/ ThreadSpawn(i)
    \/ ThreadExit(i)
    \/ ThreadRemove(i)

\* The session fed by one caller, with its capture thread and its
\* transcription threads.
NextThreads ==
    \/ Tick
    \/ Start
    \/ Stop
    \/ Ingest("feed")
    \/ CaptureThread
    \/ ThreadStart
    \/ \E i \in 1..MaxCalls : Thread(i)

SpecThreads == Init /\ [][NextThreads]_vars

\* The threads are operating-system threads, each scheduled whatever the
\* session does, and the engine is taken to exit.
ThreadsFair ==
    /\ WF_vars(ThreadStart)
    /\ \A i \in 1..MaxCalls : WF_vars(Thread(i))

SpecThreadsFair == Init /\ [][NextThreads]_vars /\ ThreadsFair

\* ================================================================ claims

AllIdle ==
    /\ starter.pc = "idle"
    /\ stopper.pc = "idle"
    /\ \A t \in IngestCallers : ingest[t].pc = "idle"

\* The step is the drain of caller t.
DrainStep(t) == ingest[t].pc = "drain" /\ ingest'[t].pc # "drain"

\* C1: whenever the session is Recording a stop handle exists, and the session
\* is Idle only with the handle consumed.  Stated for the states in which no
\* call is in flight, where no caller is between two of its writes.
C1_HandleWhileRecording ==
    AllIdle => (is_recording <=> stop_sender # NoHandle)

\* C2: once the Recording flag is false, no ingest call drains the buffer.
C2_NoDrainOnceStopped ==
    [][\A t \in IngestCallers : DrainStep(t) => is_recording]_vars

\* C3: stop_recording with no stop handle present returns "Not recording", and
\* its steps up to that return leave the buffer, the VAD counters and the
\* handle as they were; with a handle present it does not return that error.
C3_StopNotRecording ==
    [][/\ (stopper.pc = "idle" /\ stopper'.pc = "take")
            => UNCHANGED <<audio_buffer, consecutive_silent_frames,
                           last_transcription_time, stop_sender>>
       /\ (stopper.pc = "take" /\ stopper'.pc # "take")
            => IF stop_sender = NoHandle
               THEN /\ stopper'.pc = "idle"
                    /\ stopper'.ret = "Not recording"
                    /\ UNCHANGED <<audio_buffer, consecutive_silent_frames,
                                   last_transcription_time, stop_sender>>
               ELSE stopper'.ret # "Not recording"]_vars

\* C3 witness: the error was returned while the buffer held samples.
C3_Witness ==
    /\ stopper.pc = "idle"
    /\ stopper.ret = "Not recording"
    /\ audio_buffer # <<>>

\* C4: after a successful stop_recording has returned, and until the next
\* start_recording begins, the session is Idle and the buffer is empty.
C4_EmptyAfterStop ==
    (stopper.pc = "idle" /\ stopper.ret = "Ok" /\ stopper.quiet)
        => (~is_recording /\ audio_buffer = <<>>)

\* The ids of a sequence of blocks are pairwise different.
NoRepeat(s) == \A i, j \in 1..Len(s) : s[i].id = s[j].id => i = j

\* C5: the segments drained since the buffer was last cleared by a start or a
\* stop, followed by the buffer, are exactly the samples appended since then,
\* in append order and each once; a drain leaves the buffer empty, and the
\* chunk a transcription thread is given is the whole buffer drained.
C5_DrainExact ==
    /\ [](/\ appendLog = Flatten(drainLog) \o audio_buffer
          /\ NoRepeat(Flatten(drainLog) \o audio_buffer))
    /\ [][\A t \in IngestCallers :
            DrainStep(t) =>
                /\ audio_buffer' = <<>>
                /\ jobs' # jobs => jobs'[Len(jobs')].chunk = audio_buffer]_vars

\* C5 witness: a segment holding the samples of two calls was drained while
\* the other caller was in its call.
C5_Witness ==
    /\ drainLog # <<>>
    /\ \E i, j \in 1..Len(drainLog[1]) :
            drainLog[1][i].id[1] # drainLog[1][j].id[1]
    /\ \E t \in IngestCallers : ingest[t].pc \notin {"idle", "append"}

\* The step takes caller t from place p to another place.
IngestStep(t, p) == ingest[t].pc = p /\ ingest'[t].pc # p

\* C6: with VAD enabled an ingest call adds one to consecutive_silent_frames
\* when the chunk's level is below silence_threshold_db and sets it to 0
\* otherwise; it decides to emit exactly when the count it read times the
\* chunk's duration in ms is at least silence_duration_ms and the time since
\* last_transcription_time is at least min_chunk_duration_ms; a call that
\* emits sets the counter to 0 and last_transcription_time to now, and a call
\* that does not emit leaves last_transcription_time as it was.
C6_VadDecision ==
    [][\A t \in IngestCallers :
        LET c == ingest[t]
            duration == (Len(c.data) * BlockSamples * 1000) \div (c.ch * c.sr)
        IN
        /\ IngestStep(t, "silent") =>
             consecutive_silent_frames' =
                IF calculate_rms_db(c.data) < c.cfg.silence_threshold_db
                THEN consecutive_silent_frames + 1
                ELSE 0
        /\ IngestStep(t, "count") =>
             ingest'[t].cnt = consecutive_silent_frames
        /\ IngestStep(t, "elapsed") =>
             /\ ingest'[t].pc \in {"reset_frames", "idle"}
             /\ ingest'[t].pc = "reset_frames"
                  <=> /\ c.cnt * duration >= c.cfg.silence_duration_ms
                      /\ now - last_transcription_time
                            >= c.cfg.min_chunk_duration_ms
             /\ UNCHANGED <<consecutive_silent_frames, last_transcription_time>>
        /\ IngestStep(t, "reset_frames") =>
             ingest'[t].pc = "reset_time" /\ consecutive_silent_frames' = 0
        /\ IngestStep(t, "reset_time") =>
             /\ ingest'[t].pc = "recheck"
             /\ consecutive_silent_frames' = 0
             /\ last_transcription_time' = now
        /\ (c.pc \in {"silent", "count"} /\ ingest'[t] # c) =>
             last_transcription_time' = last_transcription_time]_vars

\* C6 witness: a call has emitted on a run of silent chunks after the minimum
\* time, and has reset the counter and the time of the last emission.
C6_Witness ==
    \E t \in IngestCallers :
        /\ ingest[t].pc = "recheck"
        /\ ingest[t].cfg.enabled
        /\ consecutive_silent_frames = 0
        /\ last_transcription_time = now
        /\ now > 0

\* C7: a drained chunk of fewer than 3200 samples spawns no transcription
\* thread, a chunk of at least 3200 samples spawns exactly one, given the whole
\* chunk; either way the buffer is empty after the drain, and the call had set
\* last_transcription_time to now (and, with VAD, the counter to 0) when it
\* decided to emit, which the drain and the length check do not undo.
C7_ShortSegment ==
    [][\A t \in IngestCallers :
        /\ IngestStep(t, "drain") =>
             /\ audio_buffer' = <<>>
             /\ IF Len(audio_buffer) * BlockSamples < 3200
                THEN jobs' = jobs
                ELSE /\ Len(jobs') = Len(jobs) + 1
                     /\ SubSeq(jobs', 1, Len(jobs)) = jobs
                     /\ jobs'[Len(jobs')].chunk = audio_buffer
             /\ UNCHANGED <<consecutive_silent_frames, last_transcription_time>>
        /\ (ingest'[t].pc = "drain" /\ ingest[t].pc # "drain") =>
             ingest[t].pc = "recheck"
        /\ (ingest'[t].pc = "recheck" /\ ingest[t].pc # "recheck") =>
             /\ ingest[t].pc \in {"reset_time", "timer_set"}
             /\ last_transcription_time' = now
             /\ ingest[t].pc = "reset_time" => consecutive_silent_frames' = 0
        /\ (jobs' # jobs) => \E u \in IngestCallers : IngestStep(u, "drain")]_vars

\* C7 witness: a chunk shorter than the minimum was drained and spawned
\* nothing, and a later chunk of exactly the minimum spawned one thread.
C7_Witness ==
    /\ Len(jobs) = 1
    /\ SampleCount(jobs[1].chunk) = MinSegmentSamples
    /\ \E i \in 1..Len(drainLog) :
            /\ drainLog[i] # <<>>
            /\ SampleCount(drainLog[i]) < MinSegmentSamples

\* C8: a start_recording that returns Ok with no step of another caller since
\* it began leaves is_recording true, the buffer empty, the counter 0,
\* last_transcription_time at the time it was read, the configuration it was
\* called with, and a sender no earlier call stored; without local capture the
\* format is 16000 Hz and 1 channel.  What the buffer held when a start
\* cleared it is in no chunk drained or spawned afterwards.
C8_StartResets ==
    /\ [][(starter.pc = "sender" /\ starter'.pc = "idle" /\ starter.clean) =>
            /\ starter'.ret = "Ok"
            /\ is_recording'
            /\ audio_buffer' = <<>>
            /\ consecutive_silent_frames' = 0
            /\ last_transcription_time' = starter.at
            /\ vad_config' = starter.cfg
            /\ stop_sender' # NoHandle
            /\ stop_sender' > stop_sender
            /\ ~starter.local => (sample_rate' = 16000 /\ channels' = 1)]_vars
    /\ [][(starter.pc = "last_time" /\ starter'.pc # "last_time") =>
            (last_transcription_time' = now /\ starter'.at = now)]_vars
    /\ [](/\ Ids(Flatten(drainLog) \o audio_buffer) \cap starter.dropped = {}
          /\ \A i \in 1..Len(jobs) : Ids(jobs[i].chunk) \cap starter.dropped = {})

\* C8 witness: a second start_recording, made while recording with samples in
\* the buffer, has returned Ok undisturbed.
C8_Witness ==
    /\ starter.pc = "idle"
    /\ starter.ret = "Ok"
    /\ starter.clean
    /\ starter.dropped # {}
    /\ stop_sender = starter.handle
    /\ starter.handle > 1

\* C9: when the hash of the downloaded archive or model does not match the
\* pinned one, ensure_dependencies returns the "Security check failed" error,
\* the downloaded file is removed, and nothing is at the artifact's final path
\* (main.exe, the model path); main.exe is written only by the extraction, and
\* the extraction runs only on an archive whose hash matched.
C9_VerifyFailure ==
    /\ [][/\ (ensure.pc = "zip_verify" /\ ensure' # ensure
                /\ ~ HashMatches(fs.zip, WHISPER_ZIP_HASH)) =>
                /\ ensure'.pc = "idle"
                /\ ensure'.ret = "Security check failed for Whisper binary"
                /\ ~ fs'.zip.exists
                /\ ~ fs'.exe.exists
          /\ (ensure.pc = "model_verify" /\ ensure' # ensure
                /\ ~ HashMatches(fs.model, MODEL_HASH)) =>
                /\ ensure'.pc = "idle"
                /\ ensure'.ret = "Security check failed for Whisper model"
                /\ ~ fs'.model.exists
          /\ (fs'.exe # fs.exe) =>
                /\ ensure.pc = "extract"
                /\ HashMatches(fs.zip, WHISPER_ZIP_HASH)]_vars
    /\ [](ensure.pc = "extract" =>
            (fs.zip.exists /\ HashMatches(fs.zip, WHISPER_ZIP_HASH)))

\* C9 witness: with the engine installed, a model download with one byte
\* changed has failed verification and the model path is empty.
C9_Witness ==
    /\ ensure.pc = "idle"
    /\ ensure.ret = "Security check failed for Whisper model"
    /\ ensure.got = Corrupted(ModelBytes)
    /\ fs.exe.exists
    /\ ~ fs.model.exists

\* C10: after an ensure_dependencies call that failed, a file at the model
\* path has the pinned hash, and a file at main.exe is what the archive with
\* the pinned hash extracts to.
C10_NoPartialFile ==
    (ensure.pc = "idle" /\ ensure.ret \notin {"none", "Ok"}) =>
        /\ fs.model.exists => HashMatches(fs.model, MODEL_HASH)
        /\ fs.exe.exists => fs.exe.data = Extracted(ZipBytes)

EnginePlaces == {"zip_get", "zip_write", "zip_verify", "extract"}

ModelPlaces == {"model_get", "model_create", "model_stream", "model_verify"}

\* C11: an ensure_dependencies call made while main.exe and the model file
\* both exist returns Ok in its first step with no file changed and without
\* entering a download or a verification; the engine branch runs only while
\* main.exe is absent and leaves the model file alone, and the model branch is
\* entered only with the model file absent and leaves main.exe alone.
C11_EnsureIdempotent ==
    /\ [][/\ (ensure.pc = "idle" /\ nEnsures' # nEnsures
                /\ fs.exe.exists /\ fs.model.exists) =>
                /\ fs' = fs
                /\ ensure'.pc = "idle"
                /\ ensure'.ret = "Ok"
          /\ ensure.pc \in EnginePlaces => fs'.model = fs.model
          /\ ensure.pc \in ModelPlaces => fs'.exe = fs.exe
          /\ (ensure'.pc = "zip_get" /\ ensure.pc # "zip_get") => ~ fs.exe.exists
          /\ (ensure'.pc = "model_get" /\ ensure.pc # "model_get") =>
                ~ fs.model.exists]_vars
    /\ [](/\ ensure.pc \in EnginePlaces => ~ fs.exe.exists
          /\ ensure.pc = "model_get" => ~ fs.model.exists)

\* C11 witness: a call made with both files in place has returned Ok without
\* holding any downloaded body, after an earlier call installed the model.
C11_Witness ==
    /\ ensure.pc = "idle"
    /\ ensure.ret = "Ok"
    /\ ensure.got = <<>>
    /\ nEnsures >= 2
    /\ fs.exe.exists
    /\ HashMatches(fs.model, MODEL_HASH)
    /\ fs.model.exists

\* The connection is past its registration and has not left its loop.
Serving(c) == conn[c].pc \in {"serving", "output", "broadcast"}

\* C12: a connection presenting an identifier that is in the registry is not
\* registered: an entry of the registry, once made, is never replaced by
\* another connection's channel (it can only be removed).
C12_DuplicateRejected ==
    [][\A i \in PeerIds :
        peers[i] # NoConn => peers'[i] \in {peers[i], NoConn}]_vars

\* C13: an entry leaves the registry only by the step of the connection that
\* registered it, as that connection terminates, and a connection that is
\* registered and live has its identifier in the registry, mapped to itself.
C13_RemovedByOwner ==
    /\ [][\A i \in PeerIds :
            (peers[i] # NoConn /\ peers'[i] = NoConn) =>
                /\ conn[peers[i]].pc = "remove"
                /\ conn'[peers[i]].pc = "closed"]_vars
    /\ [](\A c \in Conns : Serving(c) => peers[PeerId(c)] = c)

\* The step is connection c's receipt of a frame.
ReceiveStep(c) ==
    /\ Len(received') = Len(received) + 1
    /\ received'[Len(received')].from = c

\* C14: a text frame received by a registered connection is sent once to the
\* output sink and then, as received, on the channel of every other entry of
\* the registry as it is at that moment, and on no other channel: not on the
\* sender's own, and on none at any other step of the handler.
C14_TextBroadcast ==
    [][\A c \in Conns :
        LET f == received'[Len(received')].frame
            others == {d \in Conns \ {c} : \E i \in PeerIds : peers[i] = d}
        IN
        /\ (ReceiveStep(c) /\ f.kind = "text") =>
             /\ conn'[c] = [pc |-> "output", msg |-> f.text]
             /\ UNCHANGED <<chan, output, peers>>
        /\ (conn[c].pc = "output" /\ conn'[c] # conn[c]) =>
             /\ output' = Append(output, conn[c].msg)
             /\ conn'[c] = [pc |-> "broadcast", msg |-> conn[c].msg]
             /\ UNCHANGED <<chan, peers>>
        /\ (conn[c].pc = "broadcast" /\ conn'[c] # conn[c]) =>
             /\ conn'[c].pc = "serving"
             /\ chan'[c] = chan[c]
             /\ peers[PeerId(c)] = c =>
                  \A d \in Conns \ {c} :
                     chan'[d] = IF d \in others
                                THEN Append(chan[d], conn[c].msg)
                                ELSE chan[d]
             /\ UNCHANGED <<output, peers>>
        /\ (output' # output) =>
             \E d \in Conns : conn[d].pc = "output" /\ conn'[d].pc = "broadcast"]_vars

\* C14 witness: a registered connection's text frame has reached the sink and
\* the channel of the other registered peer, and not its own channel.
C14_Witness ==
    \E c \in Conns :
        /\ conn[c].pc = "serving"
        /\ peers["A"] = c
        /\ peers["B"] = 3
        /\ output = <<"t1">>
        /\ chan[3] = <<"t1">>
        /\ chan[c] = <<>>
        /\ \E k \in 1..Len(received) :
                received[k] = [from |-> c,
                               frame |-> [kind |-> "text", text |-> "t1",
                                          bytes |-> <<>>]]

\* C15: a binary frame of 4n bytes hands process_audio_chunk one chunk of n
\* samples, its 4-byte groups in order; a binary frame of any other length
\* hands it nothing; either way no channel and not the sink is sent anything,
\* the registry is unchanged and the connection goes on serving.
C15_BinaryFrame ==
    [][\A c \in Conns :
        LET f == received'[Len(received')].frame
            n == Len(f.bytes) \div 4
        IN  (ReceiveStep(c) /\ f.kind = "binary") =>
              /\ IF Len(f.bytes) = 4 * n
                 THEN /\ Len(fed') = Len(fed) + 1
                      /\ SubSeq(fed', 1, Len(fed)) = fed
                      /\ Len(fed'[Len(fed')]) = n
                      /\ \A k \in 1..n :
                            fed'[Len(fed')][k] =
                                f.bytes[4 * k - 3] + 256 * f.bytes[4 * k - 2]
                                + 65536 * f.bytes[4 * k - 1]
                                + 16777216 * f.bytes[4 * k]
                 ELSE fed' = fed
              /\ UNCHANGED <<chan, output, peers>>
              /\ conn[c].pc = "serving"
              /\ conn'[c] = conn[c]]_vars

\* C15 witness: a registered connection has delivered a frame of 8 bytes, which
\* was forwarded as 2 samples, and a frame of 6 bytes, which was dropped, and
\* is still registered and serving with nothing sent to anyone.
C15_Witness ==
    \E c \in Conns :
        /\ conn[c].pc = "serving"
        /\ peers[PeerId(c)] = c
        /\ Len(received) = 2
        /\ received[1].from = c /\ Len(received[1].frame.bytes) = 8
        /\ received[2].from = c /\ Len(received[2].frame.bytes) = 6
        /\ Len(fed) = 1
        /\ Len(fed[1]) = 2
        /\ output = <<>>
        /\ \A d \in Conns : chan[d] = <<>>

\* The step is one of the transcription thread of job i.
ThreadStep(i) == i <= Len(threads) /\ threads'[i] # threads[i]

\* C16: a step of a transcription thread, failing or not, changes nothing of
\* the session: not the flag, the handle, the buffer, the counters, the
\* configuration, nor a call in flight or the jobs dispatched; a transcription
\* that fails (the file cannot be created or written, the engine cannot be
\* started, the engine exits with a failure status) returns Err and emits no
\* event, and no event is ever emitted for a job whose transcription failed.
C16_FailureSwallowed ==
    /\ [][\A i \in 1..MaxCalls :
            ThreadStep(i) =>
                /\ UNCHANGED <<sessionVars, starter, stopper, ingest, jobs,
                               historyVars, now>>
                /\ (threads[i].pc \in {"create", "write", "spawn"}
                        /\ threads'[i].pc = "done") =>
                      (threads'[i].ret = "Err" /\ events' = events)
                /\ (threads[i].pc = "remove" /\ ~ threads[i].success) =>
                      (threads'[i].ret = "Err" /\ events' = events)]_vars
    /\ [](\A k \in 1..Len(events) : threads[events[k].job].ret = "Ok")

\* C16 witness: the first job's transcription failed while one job had been
\* dispatched; the session is still recording and has since dispatched a
\* second job.
C16_Witness ==
    /\ Len(threads) >= 1
    /\ threads[1].ret = "Err"
    /\ threads[1].seen = 1
    /\ Len(jobs) = 2
    /\ is_recording
    /\ events = <<>>

\* C17: once start_recording has returned Ok to a request for local capture,
\* and while the session records on that call's stop channel, a capture stream
\* is being set up or running: its thread has not given up.
C17_StartMeansCapture ==
    (/\ starter.pc = "idle"
     /\ starter.ret = "Ok"
     /\ starter.local
     /\ is_recording
     /\ stop_sender = starter.handle
     /\ capture.handle = starter.handle)
        => capture.pc \in {"spawned", "streaming"}

\* C18: when every transcription thread started has returned, whatever each
\* returned, no scratch file is left.
C18_ScratchDeleted ==
    (/\ threads # <<>>
     /\ \A i \in 1..Len(threads) : threads[i].pc = "done")
        => ~ scratch.exists

\* C19: the normalisation of a chunk that is already at 16000 Hz with 1
\* channel is the chunk itself: the same samples in the same order.
C19_NormalizeIdentity ==
    (norm.done /\ norm.sample_rate = 16000 /\ norm.channels = 1)
        => norm.y = norm.x

\* C19 witness: a chunk of samples that differ was normalised from 16000 Hz
\* mono and came out as it went in.
C19_Witness ==
    /\ norm.done
    /\ norm.sample_rate = 16000
    /\ norm.channels = 1
    /\ norm.x = <<600, -1000, 0>>
    /\ norm.y = <<600, -1000, 0>>

\* C20: with VAD disabled an ingest call decides to emit exactly when the time
\* since last_transcription_time is at least CHUNK_DURATION_SECS seconds,
\* whatever the chunk holds; a call that emits sets last_transcription_time to
\* now, and no step of the call after its read of the configuration changes
\* consecutive_silent_frames.
C20_TimerDecision ==
    [][\A t \in IngestCallers :
        LET c == ingest[t] IN
        /\ (IngestStep(t, "config") /\ ~ vad_config.enabled) =>
             ingest'[t].pc = "timer"
        /\ IngestStep(t, "timer") =>
             /\ ~ c.cfg.enabled
             /\ ingest'[t].pc \in {"timer_set", "idle"}
             /\ ingest'[t].pc = "timer_set"
                  <=> now - last_transcription_time
                         >= CHUNK_DURATION_SECS * 1000
             /\ last_transcription_time' = last_transcription_time
        /\ IngestStep(t, "timer_set") =>
             /\ ingest'[t].pc = "recheck"
             /\ last_transcription_time' = now
        /\ (~ c.cfg.enabled
              /\ c.pc \in {"timer", "timer_set", "recheck", "drain"}
              /\ ingest'[t] # c) =>
             consecutive_silent_frames' = consecutive_silent_frames]_vars

\* C20 witness: a call with VAD disabled has emitted once the interval had
\* passed, and has set the time of the last emission.
C20_Witness ==
    \E t \in IngestCallers :
        /\ ingest[t].pc = "recheck"
        /\ ~ ingest[t].cfg.enabled
        /\ last_transcription_time = now
        /\ now >= CHUNK_DURATION_SECS * 1000

\* C21: every job dispatched is in the end finished by its thread; the thread
\* that finishes with a successful engine and a transcript that is not white
\* space alone appends one partial-result event of that job, whether the
\* session records or not at that time; a thread that finishes with a failure
\* or with white space alone appends none; no other step appends an event, and
\* no job has more than one event.
C21_OneOutcome ==
    /\ [][\A i \in 1..MaxCalls :
            ThreadStep(i) =>
                LET th == threads[i]
                    said == th.pc = "remove" /\ th.success
                                /\ Trim(th.stdout) # <<>>
                IN  /\ (threads'[i].pc = "done" /\ said) =>
                          events' = Append(events,
                                           [job |-> i, text |-> Trim(th.stdout)])
                    /\ ~ said => events' = events]_vars
    /\ [][(events' # events) => \E i \in 1..MaxCalls : ThreadStep(i)]_vars
    /\ [](\A k, l \in 1..Len(events) :
            events[k].job = events[l].job => k = l)
    /\ \A i \in 1..MaxCalls :
          [](i <= Len(jobs) => <>(i <= Len(threads) /\ threads[i].pc = "done"))

\* C21 witness: the first job's transcription finished once the session had
\* stopped, and its transcript is the one event.
C21_Witness ==
    /\ Len(threads) >= 1
    /\ threads[1].pc = "done"
    /\ threads[1].ret = "Ok"
    /\ ~ threads[1].rec
    /\ ~ is_recording
    /\ stopper.pc = "idle"
    /\ events = <<[job |-> 1, text |-> <<"h", "i">>]>>

\* The step is the entry of a process_audio_chunk call: a call is counted, and
\* it is not one of start_recording or stop_recording.
IngestCallStep ==
    /\ nCalls' = nCalls + 1
    /\ starter'.pc = starter.pc
    /\ stopper'.pc = stopper.pc

\* C22: a process_audio_chunk call made while is_recording is false has
\* returned by the end of its first step and has changed nothing: not the
\* buffer, the silent-frame counter, the time of the last emission, the stop
\* handle, the format, the configuration or the flag, and no job is dispatched.
C22_IdleIngestIgnored ==
    [][(IngestCallStep /\ ~ is_recording) =>
            /\ ingest' = ingest
            /\ UNCHANGED <<audio_buffer, consecutive_silent_frames,
                           last_transcription_time, stop_sender, sample_rate,
                           channels, vad_config, is_recording, jobs,
                           appendLog, drainLog>>]_vars

\* C22 witness: the one call made so far was a process_audio_chunk call, made
\* before any start_recording; nothing is buffered and no call is in flight.
C22_Witness ==
    /\ nCalls = 1
    /\ ~ is_recording
    /\ starter = IdleStarter
    /\ stopper = IdleStopper
    /\ \A t \in IngestCallers : ingest[t] = IdleIngest
    /\ audio_buffer = <<>>
    /\ jobs = <<>>

\* The average of each adjacent pair, in order
PairAverages(x) ==
    [k \in 1..(Len(x) \div 2) |-> (x[2 * k - 1] + x[2 * k]) \div 2]

\* C23: the normalisation of a chunk with 2 channels works on the averages of
\* its adjacent pairs, floor(n/2) of them, in order; from a rate other than
\* 16000 it has floor(len * 16000 / rate) samples, and its sample i is the
\* downmixed sample at index floor(i * rate / 16000), which is in range.
C23_NormalizeArithmetic ==
    norm.done =>
        LET mono == IF norm.channels = 2 THEN PairAverages(norm.x) ELSE norm.x
            sr == norm.sample_rate
        IN  IF sr # 16000
            THEN /\ Len(norm.y) = (Len(mono) * 16000) \div sr
                 /\ \A i \in 0..(Len(norm.y) - 1) :
                        /\ (i * sr) \div 16000 < Len(mono)
                        /\ norm.y[i + 1] = mono[(i * sr) \div 16000 + 1]
            ELSE norm.y = mono

\* C24: from the end of a transcription thread's write of the scratch file to
\* the end of its engine subprocess, the file at temp_wav is there and holds
\* that job's samples, all of them and no others: no other job has truncated,
\* overwritten or removed it.
C24_OwnScratch ==
    \A i \in 1..Len(threads) :
        threads[i].pc \in {"spawn", "running"} =>
            /\ scratch.exists
            /\ scratch.of = i
            /\ scratch.data = "full"

\* C25: with VAD enabled and silence_duration_ms above 0, a call decides to
\* emit only on a chunk that is silent, its level below silence_threshold_db,
\* and whose duration is not 0 ms: a call with a chunk at or above the
\* threshold, or of a duration that truncates to 0 ms, never emits.
C25_EmitOnlyOnSilence ==
    [][\A t \in IngestCallers :
        LET c == ingest[t] IN
        (/\ IngestStep(t, "elapsed")
         /\ ingest'[t].pc = "reset_frames"
         /\ c.cfg.enabled
         /\ c.cfg.silence_duration_ms > 0) =>
            /\ calculate_rms_db(c.data) < c.cfg.silence_threshold_db
            /\ ChunkDurationMs(c.data, c.ch, c.sr) > 0]_vars

====
